---- MODULE Spec2Model ----
(***************************************************************************)
(* Irisett active monitoring engine (irisett/monitor/active.py).           *)
(*                                                                         *)
(* The model follows the asyncio structure of the engine: every action is  *)
(* the code that runs between two suspension points of one coroutine (or   *)
(* one event-loop callback).  A pipeline run of a monitor is split at its  *)
(* awaits: the plugin execution, the database transaction of a state       *)
(* change, the contact lookup of a notification and the purge.             *)
(***************************************************************************)
EXTENDS Integers, FiniteSets, Sequences, TLC

----------------------------------------------------------------------------
(* Program constants                                                       *)

DEFAULT_MONITOR_INTERVAL == 180
DOWN_THRESHOLD == 3
UNKNOWN_THRESHOLD == 5

\* ActiveMonitorManager.max_concurrent_jobs (configuration value).
max_concurrent_jobs == 1

\* Delay used by ActiveMonitor.schedule_immediately.
IMMEDIATE_DELAY == 5
\* Delay of the next tick for a DOWN result below the threshold.
DOWN_RETRY_DELAY == 30
\* Delay of the next tick for an UNKNOWN result below the threshold.
UNKNOWN_RETRY_DELAY == 120

\* Exit codes of a plugin (irisett/nagios.py).
STATUS_OK == 0
STATUS_WARNING == 1
STATUS_CRITICAL == 2
STATUS_UNKNOWN == 3

----------------------------------------------------------------------------
(* Bounds of the model                                                     *)

\* Ids the database hands out to created monitors.
MonitorIds == {1, 2, 3}
\* The monitor of the specification with a single monitor.
OneMonitor == {1}
\* The monitors of the specification of definitions and arguments.
TwoMonitors == {1, 2}
\* time.time() runs over 1..MaxTime.
MaxTime == 2
\* Longest run of equal consecutive raw check results that is explored.
MaxStreak == 6
\* Number of rows ever inserted into active_monitor_alerts.
MaxAlerts == 2
\* Number of send_notification tasks of one monitor created and not yet run.
MaxNotifications == 1
\* Number of _run_monitor tasks of one monitor created and not yet started.
MaxTasks == 1
\* Number of armed handles of one monitor that the monitor has lost.
MaxLost == 1
\* Samples of random.randint(-5, 5) and random.randint(10, 30).
Jitter == {-5, 5}
DeferDelays == {10, 30}

\* Ids of the monitor definitions and names of their parameters.
DefIds == {1}
ArgNames == {"hostname", "port"}
\* Values of an attribute of a definition (a name, a command line template).
FieldValues == {1, 2}
\* The keys an update of a definition is called with: two of the attributes
\* ActiveMonitorDef.update knows and one it does not know.
UpdateFields == {"name", "cmdline_args_tmpl", "colour"}
\* The notification backends in the order NotificationManager.send_notification
\* calls them.
Backends == <<"email", "sms", "http", "slack">>
BackendNames == {Backends[i] : i \in 1..Len(Backends)}
\* How the send of a backend ends: it sends, it fails and logs the failure
\* itself, or it raises.
SendOutcomes == {"sent", "logged", "raised"}
\* Ids of the contacts, contact groups and monitor groups of the database.
ContactIds == {1, 2}
ContactGroupIds == {1}
MonitorGroupIds == {1}
\* The dicts update_contact is called with: an email or phone column is
\* empty or holds an address.
ContactData ==
    {[email |-> "", phone |-> ""], [email |-> "a", phone |-> "p"],
     [email |-> "b", phone |-> ""], [active |-> TRUE], [active |-> FALSE]}
\* The tables that attach contacts, contact groups, monitor groups and
\* monitors to each other, with the rows each can hold.
RelationRows ==
    [active_monitor_contacts |->
         [active_monitor_id : {1}, contact_id : ContactIds],
     active_monitor_contact_groups |->
         [active_monitor_id : {1}, contact_group_id : ContactGroupIds],
     contact_group_contacts |->
         [contact_group_id : ContactGroupIds, contact_id : ContactIds],
     monitor_group_active_monitors |->
         [monitor_group_id : MonitorGroupIds, active_monitor_id : {1}],
     monitor_group_contacts |->
         [monitor_group_id : MonitorGroupIds, contact_id : ContactIds],
     monitor_group_contact_groups |->
         [monitor_group_id : MonitorGroupIds, contact_group_id : ContactGroupIds]]
\* contacts_found before any lookup.
NoLookup ==
    [monitor_id |-> 0, contacts |-> <<>>, dict |-> [email |-> {}, phone |-> {}]]
\* Two names of events and the ids a monitor filter may hold.
EventNames == {"CREATE_ACTIVE_MONITOR", "DELETE_ACTIVE_MONITOR"}
FilterIds == {1, 2}
\* The monitor of the payload of an event: none, an ActiveMonitor (which has
\* no monitor_type method), or an object whose monitor_type() is not 'active'.
PayloadMonitors ==
    {[kind |-> "none", id |-> 0]}
        \cup [kind : {"ActiveMonitor", "other"}, id : FilterIds]
\* delivered before any event is published.
NoEvent == [event_name |-> "none", monitor |-> [kind |-> "none", id |-> 0], outcome |-> "none"]
\* The arguments the monitors are created with where the arguments play no part.
DefaultArgs == {"hostname"}
\* ActiveMonitorDef.arg_spec of the definition the database holds at startup,
\* as the kind of each parameter name.
InitialArgSpec == [n \in ArgNames |-> IF n = "hostname" THEN "required" ELSE "absent"]
\* Tables that hold rows referring to a monitor, besides active_monitor_args
\* and active_monitor_alerts.
Tables == {"active_monitors", "active_monitor_contacts", "active_monitor_contact_groups",
           "monitor_group_active_monitors", "object_metadata", "object_bindata"}
\* No create_active_monitor call in progress.
NoCreate == [active |-> FALSE, def |-> 1, args |-> {}]

\* Exit codes a plugin process ends with: the four of the plugin API and one
\* outside them.
ExitCodes == 0..4

CheckStates == {"UP", "DOWN", "UNKNOWN"}
NoAlert == 0
\* ActiveMonitor.scheduled_job: handle says whether the field holds a handle,
\* pending whether that handle is still armed (neither fired nor cancelled).
NoJob == [handle |-> FALSE, pending |-> FALSE, delay |-> 0]
\* A handle that has fired (its delay no longer matters).
Fired == [handle |-> TRUE, pending |-> FALSE, delay |-> 0]

----------------------------------------------------------------------------
VARIABLES
    monitors,            \* ActiveMonitorManager.monitors (the registered ids)
    num_running_jobs,    \* ActiveMonitorManager.num_running_jobs
    created,             \* ids of the ActiveMonitor objects ever constructed
    state,               \* ActiveMonitor.state
    state_ts,            \* ActiveMonitor.state_ts
    alert_id,            \* ActiveMonitor.alert_id (NoAlert for None)
    last_check_state,    \* ActiveMonitor.last_check_state ("NONE" for None)
    consecutive_checks,  \* ActiveMonitor.consecutive_checks
    monitoring,          \* ActiveMonitor.monitoring
    deleted,             \* ActiveMonitor.deleted
    checks_enabled,      \* ActiveMonitor.checks_enabled
    alerts_enabled,      \* ActiveMonitor.alerts_enabled
    pending_reset,       \* ActiveMonitor._pending_reset
    scheduled_job,       \* ActiveMonitor.scheduled_job (the handle and its status)
    lost_jobs,           \* per monitor, its armed call_later handles it no longer refers to
    tasks,               \* _run_monitor tasks created by run_monitor, not yet started
    runs,                \* per monitor, ActiveMonitor._run calls started and not finished
    pc,                  \* where the pipeline run of each monitor is suspended
    prev_state,          \* local prev_state of the state_change in progress
    api,                 \* where an API mutation of each monitor is suspended
    alerts,              \* rows of active_monitor_alerts
    alert_seq,           \* last id handed out for active_monitor_alerts
    notifications,       \* per monitor, send_notification tasks created and not yet run
    streak,              \* length of the run of equal raw check results observed last
    now,                 \* time.time()
    monitor_defs,        \* ActiveMonitorManager.monitor_defs (the registered ids)
    arg_spec,            \* ActiveMonitorDef.arg_spec, per definition and name
    monitor_def,         \* ActiveMonitor.monitor_def (the id of the definition)
    args,                \* ActiveMonitor.args (its keys)
    expanded_args,       \* ActiveMonitor.expanded_args (the template and where each
                         \* name's value is from)
    def_fields,          \* ActiveMonitorDef.name and .cmdline_args_tmpl of each definition
    send,                \* the send_notification task: the backends due, its position, and
                         \* how the send of each backend ended
    contact_db,          \* the tables of contacts, groups and their attachments
    contacts_found,      \* what the last lookup of the contacts of a monitor returned
    listener,            \* EventListener.event_filter and .active_monitor_filter
    delivered,           \* the last event published and whether the callback was called
    creating,            \* per id, the create_active_monitor call suspended on its insert
    result,              \* how the last call of the arguments and definitions API ended
    rows,                \* per monitor, the tables holding rows that refer to it
    db_args              \* per monitor, the names in its rows of active_monitor_args

monvars == <<state, state_ts, alert_id, last_check_state, consecutive_checks,
             monitoring, deleted, checks_enabled, alerts_enabled, pending_reset>>
loopvars == <<scheduled_job, lost_jobs, tasks>>
runvars == <<runs, pc, prev_state, api>>
dbvars == <<alerts, alert_seq>>
defvars == <<monitor_defs, arg_spec, monitor_def, args, expanded_args, creating, result,
             def_fields>>
tblvars == <<rows, db_args>>
auxvars == <<send, contact_db, contacts_found, listener, delivered>>
vars == <<monitors, num_running_jobs, created, monvars, loopvars, runvars,
          dbvars, notifications, streak, now, defvars, tblvars, auxvars>>

----------------------------------------------------------------------------
(* The event loop's timers                                                 *)

\* A handle returned by loop.call_later(interval, run_monitor, id).
Handle(interval) == [handle |-> TRUE, pending |-> TRUE, delay |-> interval]

\* A variant of schedule_monitor that arms nothing.
schedule_monitor_arms_nothing(jobs, m, interval) == jobs

\* ActiveMonitorManager.schedule_monitor: the handle the monitor refers to is
\* cancelled and replaced; handles it no longer refers to stay armed.
schedule_monitor(jobs, m, interval) == [jobs EXCEPT ![m] = Handle(interval)]

\* Number of armed, not yet fired and not cancelled ticks of monitor m.
PendingTicks(m) == (IF scheduled_job[m].pending THEN 1 ELSE 0) + lost_jobs[m]

----------------------------------------------------------------------------
(* Pure functions of the check pipeline                                    *)

\* The counters of equal consecutive results stop counting at MaxStreak, which
\* is above both thresholds: the code compares them with the thresholds only.
Saturated(n) == IF n > MaxStreak THEN MaxStreak ELSE n

\* A variant of update_consecutive_checks that counts the first result of a
\* kind as one.
update_consecutive_checks_from_one(last, count, check_state) ==
    IF check_state = last THEN Saturated(count + 1) ELSE 1

\* ActiveMonitor.update_consecutive_checks: the new counter value.
update_consecutive_checks(last, count, check_state) ==
    IF check_state = last THEN Saturated(count + 1) ELSE 0

\* Variants of the tests below, as a slip in the code would make them.
down_confirmed_one_early(count) == count >= DOWN_THRESHOLD - 1
unknown_confirmed_one_late(count) == count > UNKNOWN_THRESHOLD
down_from_unknown_missing(cur, check_state) == FALSE

\* The tests of handle_check_result on the updated counter.
down_confirmed(count) == count >= DOWN_THRESHOLD
unknown_confirmed(count) == count >= UNKNOWN_THRESHOLD

\* The test of the branch of handle_check_result that takes a DOWN result in
\* state UNKNOWN, ahead of the branch with the DOWN threshold.
down_from_unknown(cur, check_state) == check_state = "DOWN" /\ cur = "UNKNOWN"

\* A variant of validate_monitor_args that does not look at the keys.
validate_monitor_args_any_key(spec, monitor_args, permit_missing) ==
    ~(~permit_missing /\ \E n \in ArgNames : spec[n] = "required" /\ n \notin monitor_args)

\* ActiveMonitorDef.validate_monitor_args: TRUE if it returns True, FALSE if it
\* raises InvalidArguments.  spec gives the kind of each parameter name.
validate_monitor_args(spec, monitor_args, permit_missing) ==
    IF ~permit_missing /\ \E n \in ArgNames : spec[n] = "required" /\ n \notin monitor_args
    THEN FALSE
    ELSE IF \E key \in monitor_args : spec[key] = "absent"
    THEN FALSE
    ELSE TRUE

\* ActiveMonitorDef.expand_monitor_args: the defaults of the definition's
\* parameters, updated with the arguments of the monitor, as handed to the
\* command line template.
expand_monitor_args(tmpl, spec, monitor_args) ==
    [tmpl |-> tmpl,
     values |-> [n \in ArgNames |-> IF n \in monitor_args THEN "value"
                                    ELSE IF spec[n] # "absent" THEN "default"
                                    ELSE "none"]]

\* nagios.run_plugin once the process has exited with returncode: it returns
\* the plugin's text or raises MonitorFailedError.
run_plugin(returncode) ==
    IF returncode \notin {STATUS_OK, STATUS_WARNING, STATUS_CRITICAL}
    THEN "MonitorFailedError"
    ELSE IF returncode \notin {STATUS_OK, STATUS_WARNING}
    THEN "MonitorFailedError"
    ELSE "returned"

\* ActiveMonitor._run: the raw state for the way run_plugin ended.
check_state_of(outcome) ==
    IF outcome = "returned" THEN "UP"
    ELSE IF outcome = "MonitorFailedError" THEN "DOWN"
    ELSE "UNKNOWN"

\* ActiveMonitor.handle_check_result: the branch taken for a raw result in a
\* monitor state with the updated counter.  change is the state handed to
\* state_change ("NONE": no state change), interval the delay of the next
\* tick, jitter whether random.randint(-5, 5) is added to it, and first
\* whether schedule_monitor is called before state_change.
handle_check_result(cur, check_state, count) ==
    IF check_state = "UP" /\ cur = "UP" THEN
        [change |-> "NONE", interval |-> DEFAULT_MONITOR_INTERVAL, jitter |-> TRUE, first |-> TRUE]
    ELSE IF check_state = "UP" /\ cur # "UP" THEN
        [change |-> "UP", interval |-> DEFAULT_MONITOR_INTERVAL, jitter |-> FALSE, first |-> TRUE]
    ELSE IF check_state = "DOWN" /\ cur = "DOWN" THEN
        [change |-> "NONE", interval |-> DEFAULT_MONITOR_INTERVAL, jitter |-> FALSE, first |-> TRUE]
    ELSE IF down_from_unknown(cur, check_state) THEN
        [change |-> "DOWN", interval |-> DEFAULT_MONITOR_INTERVAL, jitter |-> FALSE, first |-> FALSE]
    ELSE IF check_state = "DOWN" /\ cur # "DOWN" THEN
        IF down_confirmed(count)
        THEN [change |-> "DOWN", interval |-> DEFAULT_MONITOR_INTERVAL, jitter |-> FALSE, first |-> FALSE]
        ELSE [change |-> "NONE", interval |-> DOWN_RETRY_DELAY, jitter |-> FALSE, first |-> TRUE]
    ELSE IF check_state = "UNKNOWN" /\ cur = "UNKNOWN" THEN
        [change |-> "NONE", interval |-> DEFAULT_MONITOR_INTERVAL, jitter |-> FALSE, first |-> TRUE]
    ELSE
        IF unknown_confirmed(count)
        THEN [change |-> "UNKNOWN", interval |-> DEFAULT_MONITOR_INTERVAL, jitter |-> FALSE, first |-> FALSE]
        ELSE [change |-> "NONE", interval |-> UNKNOWN_RETRY_DELAY, jitter |-> FALSE, first |-> TRUE]

----------------------------------------------------------------------------
Init ==
    /\ monitors = {}
    /\ num_running_jobs = 0
    /\ created = {}
    /\ state = [m \in MonitorIds |-> "UNKNOWN"]
    /\ state_ts = [m \in MonitorIds |-> 0]
    /\ alert_id = [m \in MonitorIds |-> NoAlert]
    /\ last_check_state = [m \in MonitorIds |-> "NONE"]
    /\ consecutive_checks = [m \in MonitorIds |-> 0]
    /\ monitoring = [m \in MonitorIds |-> FALSE]
    /\ deleted = [m \in MonitorIds |-> FALSE]
    /\ checks_enabled = [m \in MonitorIds |-> TRUE]
    /\ alerts_enabled = [m \in MonitorIds |-> TRUE]
    /\ pending_reset = [m \in MonitorIds |-> FALSE]
    /\ scheduled_job = [m \in MonitorIds |-> NoJob]
    /\ lost_jobs = [m \in MonitorIds |-> 0]
    /\ tasks = [m \in MonitorIds |-> 0]
    /\ runs = [m \in MonitorIds |-> 0]
    /\ pc = [m \in MonitorIds |-> "idle"]
    /\ prev_state = [m \in MonitorIds |-> "NONE"]
    /\ api = [m \in MonitorIds |-> "none"]
    /\ alerts = {}
    /\ alert_seq = 0
    /\ notifications = [m \in MonitorIds |-> 0]
    /\ streak = [m \in MonitorIds |-> 0]
    /\ now = 1
    /\ monitor_defs = DefIds
    /\ arg_spec = [d \in DefIds |-> InitialArgSpec]
    /\ monitor_def = [m \in MonitorIds |-> 1]
    /\ args = [m \in MonitorIds |-> {}]
    /\ expanded_args = [m \in MonitorIds |-> [tmpl |-> 1, values |-> [n \in ArgNames |-> "none"]]]
    /\ def_fields = [d \in DefIds |-> [name |-> 1, cmdline_args_tmpl |-> 1]]
    /\ send = [pc |-> "idle", due |-> {}, status |-> [b \in BackendNames |-> "no"]]
    /\ contact_db = [contacts |-> [c \in ContactIds |->
                                      [email |-> "", phone |-> "", active |-> FALSE]],
                     contact_groups |-> [g \in ContactGroupIds |-> [active |-> FALSE]],
                     active_monitor_contacts |-> {},
                     active_monitor_contact_groups |-> {},
                     contact_group_contacts |-> {},
                     monitor_group_active_monitors |-> {},
                     monitor_group_contacts |-> {},
                     monitor_group_contact_groups |-> {}]
    /\ contacts_found = NoLookup
    /\ listener = [event_filter |-> {}, active_monitor_filter |-> {}]
    /\ delivered = NoEvent
    /\ creating = [m \in MonitorIds |-> NoCreate]
    /\ result = "none"
    /\ rows = [m \in MonitorIds |-> {}]
    /\ db_args = [m \in MonitorIds |-> {}]

----------------------------------------------------------------------------
(* Helpers shared by the actions                                           *)

\* The handle of monitor m is dropped from the monitor (scheduled_job = None):
\* a handle that is still armed stays in the loop, unreferenced.
DropJob(m) ==
    IF scheduled_job[m].pending THEN [lost_jobs EXCEPT ![m] = @ + 1] ELSE lost_jobs

\* ActiveMonitor.schedule_immediately, as a new value of scheduled_job.
schedule_immediately(m) ==
    IF ~monitoring[m] /\ ~deleted[m]
    THEN schedule_monitor(scheduled_job, m, IMMEDIATE_DELAY)
    ELSE scheduled_job

\* A variant of txn_close_alert that leaves end_ts as it is.
txn_close_alert_no_update(alert_rows, id, ts) == alert_rows

\* txn_close_alert: update active_monitor_alerts set end_ts=%s where id=%s.
txn_close_alert(alert_rows, id, ts) ==
    {IF r.id = id THEN [r EXCEPT !.end_ts = ts] ELSE r : r \in alert_rows}

\* txn_create_alert: the row inserted with end_ts 0.
txn_create_alert(id, m, ts) ==
    [id |-> id, monitor_id |-> m, start_ts |-> ts, end_ts |-> 0]

\* remove_monitor_from_db: delete from active_monitor_alerts where monitor_id=%s.
remove_monitor_from_db(alert_rows, m) == {r \in alert_rows : r.monitor_id # m}

\* The tables remove_monitor_from_db deletes from, besides active_monitor_args
\* and active_monitor_alerts.
PurgedTables == {"active_monitors", "active_monitor_contacts", "object_metadata",
                 "object_bindata"}

\* remove_monitor_from_db: the tables left with rows of a monitor.
purge_tables(tables) == tables \ PurgedTables

\* The transaction of remove_monitor_from_db for monitor m.
RemoveMonitorFromDb(m) ==
    /\ alerts' = remove_monitor_from_db(alerts, m)
    /\ rows' = [rows EXCEPT ![m] = purge_tables(@)]
    /\ db_args' = [db_args EXCEPT ![m] = {}]

\* The end of ActiveMonitor._run after handle_check_result, and the return
\* through ActiveMonitor.run and ActiveMonitorManager._run_monitor.
RunReturns(m) ==
    /\ prev_state' = [prev_state EXCEPT ![m] = "NONE"]
    /\ IF deleted[m]
       THEN /\ pc' = [pc EXCEPT ![m] = "purge"]
            /\ UNCHANGED <<runs, monitoring, num_running_jobs>>
       ELSE /\ pc' = [pc EXCEPT ![m] = "idle"]
            /\ runs' = [runs EXCEPT ![m] = @ - 1]
            /\ monitoring' = [monitoring EXCEPT ![m] = FALSE]
            /\ num_running_jobs' = num_running_jobs - 1

\* What follows state_change in handle_check_result: the DOWN and UNKNOWN
\* branches call schedule_monitor after it, the UP branch did so before.
AfterStateChange(m) ==
    /\ scheduled_job' = IF state[m] = "UP" THEN scheduled_job
                        ELSE schedule_monitor(scheduled_job, m, DEFAULT_MONITOR_INTERVAL)
    /\ RunReturns(m)

----------------------------------------------------------------------------
(* API operations                                                          *)

\* create_active_monitor up to its suspension on the insert: the arguments
\* are validated against the definition the API has looked up in the
\* registry.  m is the id the insert will return.
CreateActiveMonitor(m, d, monitor_args) ==
    /\ UNCHANGED auxvars
    /\ UNCHANGED def_fields
    /\ m \notin created /\ ~creating[m].active
    /\ \A k \in MonitorIds : k < m => (k \in created \/ creating[k].active)
    /\ d \in monitor_defs
    /\ IF validate_monitor_args(arg_spec[d], monitor_args, FALSE)
       THEN /\ creating' = [creating EXCEPT ![m] = [active |-> TRUE, def |-> d,
                                                     args |-> monitor_args]]
            /\ result' = "none"
       ELSE /\ result' = "InvalidArguments"
            /\ UNCHANGED creating
    /\ UNCHANGED <<monitors, num_running_jobs, created, monvars, loopvars, runvars,
                   dbvars, notifications, streak, now, monitor_defs, arg_spec,
                   monitor_def, args, expanded_args, tblvars>>

\* The insert of create_active_monitor has committed: the ActiveMonitor is
\* constructed and ActiveMonitorManager.add_monitor registers and schedules it.
CreateCommits(m) ==
    /\ UNCHANGED auxvars
    /\ UNCHANGED def_fields
    /\ creating[m].active
    /\ creating' = [creating EXCEPT ![m] = NoCreate]
    /\ rows' = [rows EXCEPT ![m] = {"active_monitors"}]
    /\ db_args' = [db_args EXCEPT ![m] = creating[m].args]
    /\ monitor_def' = [monitor_def EXCEPT ![m] = creating[m].def]
    /\ args' = [args EXCEPT ![m] = creating[m].args]
    /\ expanded_args' = [expanded_args EXCEPT ![m] =
                             expand_monitor_args(def_fields[creating[m].def].cmdline_args_tmpl,
                                                 arg_spec[creating[m].def], creating[m].args)]
    /\ result' = "ok"
    /\ created' = created \cup {m}
    /\ monitors' = monitors \cup {m}
    /\ state' = [state EXCEPT ![m] = "UNKNOWN"]
    /\ state_ts' = [state_ts EXCEPT ![m] = now]
    /\ scheduled_job' = schedule_monitor(scheduled_job, m, 0)
    /\ UNCHANGED <<num_running_jobs, alert_id, last_check_state, consecutive_checks,
                   monitoring, deleted, checks_enabled, alerts_enabled, pending_reset,
                   lost_jobs, tasks, runvars, dbvars, notifications, streak, now,
                   monitor_defs, arg_spec>>

\* ActiveMonitor.delete.
Delete(m) ==
    /\ UNCHANGED auxvars
    /\ m \in monitors
    /\ ~deleted[m]
    /\ deleted' = [deleted EXCEPT ![m] = TRUE]
    /\ monitors' = monitors \ {m}
    /\ IF monitoring[m]
       THEN UNCHANGED <<alerts, rows, db_args>>
       ELSE RemoveMonitorFromDb(m)
    /\ UNCHANGED <<num_running_jobs, created, state, state_ts, alert_id, last_check_state,
                   consecutive_checks, monitoring, checks_enabled, alerts_enabled,
                   pending_reset, loopvars, runvars, alert_seq, notifications, streak, now,
                   defvars>>

\* ActiveMonitor.set_checks_enabled_status up to its first suspension: with
\* checks switched off and no run in progress that is the transaction of
\* reset_monitor; otherwise the whole call.
SetChecksEnabled(m, enabled) ==
    /\ m \in monitors
    /\ api[m] = "none"
    /\ checks_enabled[m] # enabled
    /\ checks_enabled' = [checks_enabled EXCEPT ![m] = enabled]
    /\ IF enabled
       THEN /\ scheduled_job' = schedule_immediately(m)
            /\ UNCHANGED <<pending_reset, state, state_ts, consecutive_checks, api>>
       ELSE IF monitoring[m]
       THEN /\ pending_reset' = [pending_reset EXCEPT ![m] = TRUE]
            /\ scheduled_job' = schedule_immediately(m)
            /\ UNCHANGED <<state, state_ts, consecutive_checks, api>>
       ELSE /\ pending_reset' = [pending_reset EXCEPT ![m] = FALSE]
            /\ state' = [state EXCEPT ![m] = "UNKNOWN"]
            /\ state_ts' = [state_ts EXCEPT ![m] = now]
            /\ consecutive_checks' = [consecutive_checks EXCEPT ![m] = 0]
            /\ api' = [api EXCEPT ![m] = "reset"]
            /\ UNCHANGED scheduled_job
    /\ UNCHANGED <<auxvars, defvars, tblvars, monitors, num_running_jobs, created, alert_id, last_check_state,
                   monitoring, deleted, alerts_enabled, lost_jobs, tasks, runs, pc,
                   prev_state, dbvars, notifications, streak, now>>

\* The transaction of reset_monitor commits; set_checks_enabled_status goes on
\* to schedule_immediately.
ResetCommit(m) ==
    /\ api[m] = "reset"
    /\ api' = [api EXCEPT ![m] = "none"]
    /\ alerts' = IF alert_id[m] # NoAlert
                 THEN txn_close_alert(alerts, alert_id[m], state_ts[m]) ELSE alerts
    /\ alert_id' = [alert_id EXCEPT ![m] = NoAlert]
    /\ scheduled_job' = schedule_immediately(m)
    /\ UNCHANGED <<auxvars, defvars, tblvars, monitors, num_running_jobs, created, state, state_ts, last_check_state,
                   consecutive_checks, monitoring, deleted, checks_enabled, alerts_enabled,
                   pending_reset, lost_jobs, tasks, runs, pc, prev_state, alert_seq,
                   notifications, streak, now>>

\* The transaction of reset_monitor fails and is rolled back; the error leaves
\* set_checks_enabled_status.  txn_close_alert may already have cleared alert_id.
ResetFails(m) ==
    /\ api[m] = "reset"
    /\ api' = [api EXCEPT ![m] = "none"]
    /\ \E cleared \in BOOLEAN :
          alert_id' = [alert_id EXCEPT ![m] = IF cleared THEN NoAlert ELSE @]
    /\ UNCHANGED <<auxvars, defvars, tblvars, monitors, num_running_jobs, created, state, state_ts, last_check_state,
                   consecutive_checks, monitoring, deleted, checks_enabled, alerts_enabled,
                   pending_reset, loopvars, runs, pc, prev_state, dbvars, notifications,
                   streak, now>>

\* ActiveMonitor.set_alerts_enabled_status.
SetAlertsEnabled(m, enabled) ==
    /\ m \in monitors
    /\ alerts_enabled[m] # enabled
    /\ alerts_enabled' = [alerts_enabled EXCEPT ![m] = enabled]
    /\ UNCHANGED <<auxvars, defvars, tblvars, monitors, num_running_jobs, created, state, state_ts, alert_id,
                   last_check_state, consecutive_checks, monitoring, deleted,
                   checks_enabled, pending_reset, loopvars, runvars, dbvars,
                   notifications, streak, now>>

\* ActiveMonitor.schedule_immediately called from the API.
ScheduleImmediately(m) ==
    /\ m \in monitors
    /\ ~monitoring[m] /\ ~deleted[m]
    /\ scheduled_job' = schedule_immediately(m)
    /\ UNCHANGED <<auxvars, defvars, tblvars, monitors, num_running_jobs, created, monvars, lost_jobs, tasks,
                   runvars, dbvars, notifications, streak, now>>

----------------------------------------------------------------------------
(* The event loop and the check pipeline                                   *)

\* A pending call_later handle of monitor m fires: ActiveMonitorManager.run_monitor
\* creates the _run_monitor task.  ref tells whether the handle that fires is
\* the one the monitor refers to or one it has lost.
TimerFires(m) ==
    /\ \E ref \in BOOLEAN :
          IF ref
          THEN /\ scheduled_job[m].pending
               /\ scheduled_job' = [scheduled_job EXCEPT ![m] = Fired]
               /\ UNCHANGED lost_jobs
          ELSE /\ lost_jobs[m] > 0
               /\ lost_jobs' = [lost_jobs EXCEPT ![m] = @ - 1]
               /\ UNCHANGED scheduled_job
    /\ tasks[m] < MaxTasks
    /\ tasks' = [tasks EXCEPT ![m] = @ + 1]
    /\ UNCHANGED <<auxvars, defvars, tblvars, monitors, num_running_jobs, created, monvars, runvars, dbvars,
                   notifications, streak, now>>

\* A variant of over_cap that never defers.
over_cap_never(n) == FALSE

\* The test of _run_monitor that defers a dispatch.
over_cap(n) == n > max_concurrent_jobs

\* A variant of the test of _run that never skips a check.
skips_check_never(enabled) == FALSE

\* The test of ActiveMonitor._run that skips the check of a monitor whose
\* checks are disabled.
skips_check(enabled) == ~enabled

\* A variant of the entry check that forgets the monitoring flag.
may_run_unless_deleted(m) == ~deleted[m]

\* The entry check of ActiveMonitor.run: a deleted monitor, or one whose run
\* is in progress, is not run.
may_run(m) == ~(deleted[m] \/ monitoring[m])

\* ActiveMonitor.reset_monitor as ActiveMonitor._run calls it for a pending
\* reset: run has set monitoring before, so the call sets the flag again and
\* returns without resetting anything.
reset_monitor_while_monitoring(flags, m) == [flags EXCEPT ![m] = TRUE]

\* ActiveMonitorManager._run_monitor from its start to the first suspension,
\* through ActiveMonitor.run and ActiveMonitor._run: the task either returns
\* at once (monitor missing, deferred, already running, checks disabled) or
\* suspends on the plugin execution.
RunMonitor(m, defer) ==
    /\ tasks[m] > 0
    /\ (m \in monitors /\ scheduled_job[m].pending) => lost_jobs[m] < MaxLost
    /\ tasks' = [tasks EXCEPT ![m] = @ - 1]
    /\ IF m \notin monitors
       THEN UNCHANGED <<scheduled_job, lost_jobs, num_running_jobs, monitoring, runs, pc>>
       ELSE LET none == [scheduled_job EXCEPT ![m] = NoJob] IN
            /\ lost_jobs' = DropJob(m)
            /\ IF over_cap(num_running_jobs)
               THEN /\ scheduled_job' = schedule_monitor(none, m, defer)
                    /\ UNCHANGED <<num_running_jobs, monitoring, runs, pc>>
               ELSE IF ~may_run(m)
               THEN /\ scheduled_job' = none
                    /\ UNCHANGED <<num_running_jobs, monitoring, runs, pc>>
               ELSE IF skips_check(checks_enabled[m])
               THEN /\ scheduled_job' = schedule_monitor(none, m, DEFAULT_MONITOR_INTERVAL)
                    /\ UNCHANGED <<num_running_jobs, monitoring, runs, pc>>
               ELSE /\ scheduled_job' = none
                    /\ runs' = [runs EXCEPT ![m] = @ + 1]
                    /\ num_running_jobs' = num_running_jobs + 1
                    /\ monitoring' = [monitoring EXCEPT ![m] = TRUE]
                    /\ pc' = [pc EXCEPT ![m] = "plugin"]
    /\ pending_reset' =
           IF /\ m \in monitors /\ ~(over_cap(num_running_jobs))
              /\ may_run(m) /\ pending_reset[m]
           THEN reset_monitor_while_monitoring(pending_reset, m)
           ELSE pending_reset
    /\ UNCHANGED <<auxvars, defvars, tblvars, monitors, created, state, state_ts, alert_id, last_check_state,
                   consecutive_checks, deleted, checks_enabled, alerts_enabled,
                   prev_state, api, dbvars, notifications, streak, now>>

\* nagios.run_plugin returns or raises a NagiosError: ActiveMonitor._run
\* classifies the result as check_state, updates the counter and calls
\* handle_check_result, up to the transaction of state_change or, without a
\* state change, to the end of the run.
PluginDone(m, check_state, jitter) ==
    /\ pc[m] = "plugin"
    /\ LET count == update_consecutive_checks(last_check_state[m], consecutive_checks[m],
                                              check_state)
           r == handle_check_result(state[m], check_state, count)
           interval == r.interval + (IF r.jitter THEN jitter ELSE 0)
       IN
       /\ r.change = "DOWN" => alert_seq < MaxAlerts
       /\ r.change # "NONE" => notifications[m] < MaxNotifications
       /\ last_check_state' = [last_check_state EXCEPT ![m] = check_state]
       /\ consecutive_checks' = [consecutive_checks EXCEPT ![m] = count]
       /\ streak' = [streak EXCEPT ![m] = IF check_state = last_check_state[m]
                                           THEN Saturated(@ + 1) ELSE 1]
       /\ IF r.change = "NONE"
          THEN /\ scheduled_job' = schedule_monitor(scheduled_job, m, interval)
               /\ RunReturns(m)
               /\ UNCHANGED <<state, state_ts>>
          ELSE /\ prev_state' = [prev_state EXCEPT ![m] = state[m]]
               /\ state' = [state EXCEPT ![m] = r.change]
               /\ state_ts' = [state_ts EXCEPT ![m] = now]
               /\ scheduled_job' = IF r.first
                                   THEN schedule_monitor(scheduled_job, m, interval)
                                   ELSE scheduled_job
               /\ pc' = [pc EXCEPT ![m] = IF r.change = "UP" THEN "set_up"
                                          ELSE IF r.change = "DOWN" THEN "set_down"
                                          ELSE "set_unknown"]
               /\ UNCHANGED <<monitoring, num_running_jobs, runs>>
    /\ UNCHANGED <<auxvars, defvars, tblvars, monitors, created, alert_id, deleted, checks_enabled, alerts_enabled,
                   pending_reset, lost_jobs, tasks, api, dbvars, notifications, now>>

\* The plugin process of the run of monitor m exits with returncode.
PluginExits(m, returncode, jitter) ==
    PluginDone(m, check_state_of(run_plugin(returncode)), jitter)

\* The executable of the plugin is missing: create_subprocess_exec raises
\* FileNotFoundError and run_plugin raises NagiosError.
PluginNotFound(m, jitter) ==
    PluginDone(m, check_state_of("NagiosError"), jitter)

\* The new state of the state_change that is suspended at position p.
new_state_of(p) ==
    IF p = "set_down" THEN "DOWN" ELSE IF p = "set_up" THEN "UP" ELSE "UNKNOWN"

\* A variant of notify_on_state_change that notifies of every state change.
notify_on_every_state_change(alerts_on, new_state, prev) == alerts_on

\* Whether state_change, after its transaction, gets past the alerts_enabled
\* test of notify_state_change: it calls notify_state_change for DOWN and for
\* UP after DOWN only.
notify_on_state_change(alerts_on, new_state, prev) ==
    /\ new_state = "DOWN" \/ (new_state = "UP" /\ prev = "DOWN")
    /\ alerts_on

\* A variant of closes_alert in which set_unknown closes the alert as well.
closes_alert_when_leaving_down(p, id) == p \in {"set_up", "set_unknown"} /\ id # NoAlert

\* Whether the transaction at position p runs txn_close_alert: set_up does
\* for a monitor with an alert_id, set_down and set_unknown never do.
closes_alert(p, id) == p = "set_up" /\ id # NoAlert

\* The transaction of set_up, set_down or set_unknown commits; state_change
\* goes on to notify_state_change, which suspends on the contact lookup when
\* alerts are enabled, and otherwise the run goes on to its end.
TransactionCommits(m) ==
    /\ pc[m] \in {"set_up", "set_down", "set_unknown"}
    /\ IF pc[m] = "set_down"
       THEN /\ alert_seq' = alert_seq + 1
            /\ alerts' = alerts \cup {txn_create_alert(alert_seq + 1, m, state_ts[m])}
            /\ alert_id' = [alert_id EXCEPT ![m] = alert_seq + 1]
       ELSE IF closes_alert(pc[m], alert_id[m])
       THEN /\ alerts' = txn_close_alert(alerts, alert_id[m], state_ts[m])
            /\ alert_id' = [alert_id EXCEPT ![m] = NoAlert]
            /\ UNCHANGED alert_seq
       ELSE UNCHANGED <<alerts, alert_seq, alert_id>>
    /\ IF notify_on_state_change(alerts_enabled[m], new_state_of(pc[m]), prev_state[m])
       THEN /\ pc' = [pc EXCEPT ![m] = "notify"]
            /\ UNCHANGED <<scheduled_job, monitoring, num_running_jobs, runs, prev_state>>
       ELSE AfterStateChange(m)
    /\ UNCHANGED <<auxvars, defvars, tblvars, monitors, created, state, state_ts, last_check_state,
                   consecutive_checks, deleted, checks_enabled, alerts_enabled,
                   pending_reset, lost_jobs, tasks, api, notifications, streak, now>>

\* notify_state_change has its contacts and metadata and creates the
\* send_notification task; the run goes on to its end.
NotifyStateChange(m) ==
    /\ pc[m] = "notify"
    /\ notifications' = [notifications EXCEPT ![m] = @ + 1]
    /\ AfterStateChange(m)
    /\ UNCHANGED <<auxvars, defvars, tblvars, monitors, created, state, state_ts, alert_id, last_check_state,
                   consecutive_checks, deleted, checks_enabled, alerts_enabled,
                   pending_reset, lost_jobs, tasks, api, dbvars, streak, now>>

\* A variant of reschedule_after_error that never arms a tick.
reschedule_after_error_never(jobs, m) == jobs

\* The except branch of _run_monitor: the monitor is scheduled at the default
\* interval unless it refers to a handle.
reschedule_after_error(jobs, m) ==
    IF jobs[m].handle THEN jobs ELSE schedule_monitor(jobs, m, DEFAULT_MONITOR_INTERVAL)

\* A variant of release_after_error that keeps the slot.
release_after_error_keeps_slot(n) == n

\* The except branch of _run_monitor: num_running_jobs -= 1.
release_after_error(n) == n - 1

\* An awaited call of the run raises (the transaction is rolled back, a
\* lookup or the purge fails, the plugin cannot be spawned): ActiveMonitor.run
\* clears monitoring and _run_monitor releases the slot and re-schedules the
\* monitor if it holds no handle.  A failed transaction may have executed its
\* first statement, after which txn_create_alert or txn_close_alert has
\* already assigned alert_id.
RunRaises(m, partial) ==
    /\ pc[m] # "idle"
    /\ IF partial /\ pc[m] = "set_down"
       THEN /\ alert_seq' = alert_seq + 1
            /\ alert_id' = [alert_id EXCEPT ![m] = alert_seq + 1]
       ELSE IF partial /\ pc[m] = "set_up"
       THEN /\ alert_id' = [alert_id EXCEPT ![m] = NoAlert]
            /\ UNCHANGED alert_seq
       ELSE UNCHANGED <<alert_id, alert_seq>>
    /\ pc' = [pc EXCEPT ![m] = "idle"]
    /\ runs' = [runs EXCEPT ![m] = @ - 1]
    /\ prev_state' = [prev_state EXCEPT ![m] = "NONE"]
    /\ monitoring' = [monitoring EXCEPT ![m] = FALSE]
    /\ num_running_jobs' = release_after_error(num_running_jobs)
    /\ scheduled_job' = reschedule_after_error(scheduled_job, m)
    /\ UNCHANGED <<auxvars, defvars, tblvars, monitors, created, state, state_ts, last_check_state,
                   consecutive_checks, deleted, checks_enabled, alerts_enabled,
                   pending_reset, lost_jobs, tasks, api, alerts,
                   notifications, streak, now>>

\* Spawning the plugin or reading its output raises an error other than
\* FileNotFoundError (PermissionError, another OSError): run_plugin does not
\* catch it and ActiveMonitor._run catches NagiosError only, so the run raises.
PluginIOError(m) ==
    /\ pc[m] = "plugin"
    /\ RunRaises(m, FALSE)

\* A send_notification task created by notify_state_change runs.
send_notification(m) ==
    /\ notifications[m] > 0
    /\ notifications' = [notifications EXCEPT ![m] = @ - 1]
    /\ UNCHANGED <<auxvars, defvars, tblvars, monitors, num_running_jobs, created, monvars, loopvars, runvars,
                   dbvars, streak, now>>

\* ActiveMonitor._purge at the end of the run of a deleted monitor.
Purge(m) ==
    /\ UNCHANGED auxvars
    /\ pc[m] = "purge"
    /\ RemoveMonitorFromDb(m)
    /\ pc' = [pc EXCEPT ![m] = "idle"]
    /\ runs' = [runs EXCEPT ![m] = @ - 1]
    /\ monitoring' = [monitoring EXCEPT ![m] = FALSE]
    /\ num_running_jobs' = num_running_jobs - 1
    /\ UNCHANGED <<monitors, created, state, state_ts, alert_id, last_check_state,
                   consecutive_checks, deleted, checks_enabled, alerts_enabled,
                   pending_reset, loopvars, prev_state, api, alert_seq, notifications,
                   streak, now, defvars>>

\* A variant of the failsafe's test that finds no monitor.
missing_schedule_never(m) == FALSE

\* The test of check_missing_schedules: the monitor is not deleted, not being
\* checked, and refers to no tick handle.
missing_schedule(m) == ~deleted[m] /\ ~monitoring[m] /\ ~scheduled_job[m].handle

\* ActiveMonitorManager.check_missing_schedules, the failsafe that re-arms
\* itself every 600 s.
check_missing_schedules ==
    LET missing == {m \in monitors : missing_schedule(m)}
    IN /\ missing # {}
       /\ scheduled_job' = [m \in MonitorIds |->
                               IF m \in missing THEN Handle(DEFAULT_MONITOR_INTERVAL)
                               ELSE scheduled_job[m]]
       /\ UNCHANGED <<auxvars, defvars, tblvars, monitors, num_running_jobs, created, monvars, lost_jobs, tasks,
                      runvars, dbvars, notifications, streak, now>>

\* time.time() advances.
Tick ==
    /\ now < MaxTime
    /\ now' = now + 1
    /\ UNCHANGED <<auxvars, defvars, tblvars, monitors, num_running_jobs, created, monvars, loopvars, runvars,
                   dbvars, notifications, streak>>

----------------------------------------------------------------------------
TypeOK ==
    /\ monitors \subseteq created /\ created \subseteq MonitorIds
    /\ num_running_jobs \in 0..Cardinality(MonitorIds)
    /\ state \in [MonitorIds -> CheckStates]
    /\ state_ts \in [MonitorIds -> 0..MaxTime]
    /\ alert_id \in [MonitorIds -> 0..(MaxAlerts + Cardinality(MonitorIds))]
    /\ last_check_state \in [MonitorIds -> CheckStates \cup {"NONE"}]
    /\ consecutive_checks \in [MonitorIds -> 0..MaxStreak]
    /\ monitoring \in [MonitorIds -> BOOLEAN]
    /\ deleted \in [MonitorIds -> BOOLEAN]
    /\ checks_enabled \in [MonitorIds -> BOOLEAN]
    /\ alerts_enabled \in [MonitorIds -> BOOLEAN]
    /\ pending_reset \in [MonitorIds -> BOOLEAN]
    /\ \A m \in MonitorIds : scheduled_job[m].pending => scheduled_job[m].handle
    /\ tasks \in [MonitorIds -> 0..MaxTasks]
    /\ lost_jobs \in [MonitorIds -> 0..MaxLost]
    /\ pc \in [MonitorIds -> {"idle", "plugin", "set_up", "set_down", "set_unknown",
                              "notify", "purge"}]
    /\ api \in [MonitorIds -> {"none", "reset"}]
    /\ \A m \in MonitorIds : monitoring[m] <=> pc[m] # "idle"
    /\ runs \in [MonitorIds -> 0..1]
    /\ \A r \in alerts : r.monitor_id \in created /\ r.id \in 1..alert_seq
    /\ notifications \in [MonitorIds -> 0..MaxNotifications]
    /\ streak \in [MonitorIds -> 0..MaxStreak]
    /\ now \in 1..MaxTime
    /\ monitor_defs \subseteq DefIds
    /\ arg_spec \in [DefIds -> [ArgNames -> {"absent", "optional", "required"}]]
    /\ monitor_def \in [MonitorIds -> DefIds]
    /\ args \in [MonitorIds -> SUBSET ArgNames]
    /\ expanded_args \in [MonitorIds -> [tmpl : FieldValues,
                                         values : [ArgNames -> {"none", "default", "value"}]]]
    /\ def_fields \in [DefIds -> [name : FieldValues, cmdline_args_tmpl : FieldValues]]
    /\ send \in [pc : {"idle", "running", "done", "failed"}, due : SUBSET BackendNames,
                 status : [BackendNames -> SendOutcomes \cup {"no"}]]
    /\ contact_db.contacts \in [ContactIds -> [email : {"", "a", "b"},
                                                 phone : {"", "p"},
                                                 active : BOOLEAN]]
    /\ contact_db.contact_groups \in [ContactGroupIds -> [active : BOOLEAN]]
    /\ \A table \in DOMAIN RelationRows : contact_db[table] \subseteq RelationRows[table]
    /\ contacts_found.monitor_id \in MonitorIds \cup {0}
    /\ Len(contacts_found.contacts) <= Cardinality(ContactIds)
    /\ listener \in [event_filter : SUBSET EventNames, active_monitor_filter : SUBSET FilterIds]
    /\ delivered \in [event_name : EventNames \cup {"none"}, monitor : PayloadMonitors,
                      outcome : {"none", "called", "skipped", "raised"}]
    /\ \A m \in MonitorIds : creating[m].active => m \notin created
    /\ result \in {"none", "ok", "InvalidArguments", "IrisettError"}
    /\ rows \in [MonitorIds -> SUBSET Tables]
    /\ db_args \in [MonitorIds -> SUBSET ArgNames]

\* The API operations on a monitor.
Api(m) ==
    \/ CreateActiveMonitor(m, 1, DefaultArgs)
    \/ CreateCommits(m)
    \/ \E enabled \in BOOLEAN : SetChecksEnabled(m, enabled)
    \/ ResetCommit(m)
    \/ \E enabled \in BOOLEAN : SetAlertsEnabled(m, enabled)
    \/ ScheduleImmediately(m)
    \/ Delete(m)

\* The event loop running the timers, tasks and coroutines of a monitor.
Engine(m) ==
    \/ TimerFires(m)
    \/ \E defer \in DeferDelays : RunMonitor(m, defer)
    \/ \E returncode \in ExitCodes, jitter \in Jitter : PluginExits(m, returncode, jitter)
    \/ \E jitter \in Jitter : PluginNotFound(m, jitter)
    \/ TransactionCommits(m)
    \/ NotifyStateChange(m)
    \/ send_notification(m)
    \/ Purge(m)

\* Errors raised by awaited calls.
Faults(m) ==
    \/ \E partial \in BOOLEAN : RunRaises(m, partial)
    \/ ResetFails(m)

\* One monitor, every API operation and every check result; no awaited call
\* fails and the clock stands still.
Next ==
    \/ \E m \in OneMonitor : Api(m) \/ Engine(m)
    \/ check_missing_schedules

Spec == Init /\ [][Next]_vars

\* One monitor that is created and checked, with every check result and
\* with its alerts switched on and off, while time passes.
NextClock ==
    \/ \E m \in OneMonitor :
           \/ CreateActiveMonitor(m, 1, DefaultArgs)
           \/ CreateCommits(m)
           \/ \E enabled \in BOOLEAN : SetAlertsEnabled(m, enabled)
           \/ TimerFires(m)
           \/ \E defer \in DeferDelays : RunMonitor(m, defer)
           \/ \E returncode \in ExitCodes, jitter \in Jitter :
                  PluginExits(m, returncode, jitter)
           \/ \E jitter \in Jitter : PluginNotFound(m, jitter)
           \/ TransactionCommits(m)
           \/ NotifyStateChange(m)
           \/ send_notification(m)
    \/ Tick

SpecClock == Init /\ [][NextClock]_vars

\* As Spec, with awaited calls that may fail.
NextFaults ==
    \/ Next
    \/ \E m \in OneMonitor : Faults(m)

SpecFaults == Init /\ [][NextFaults]_vars

\* Two monitors whose plugins report UP, competing for the slots of the
\* manager.
NextSched ==
    \E m \in MonitorIds :
        \/ CreateActiveMonitor(m, 1, DefaultArgs)
        \/ CreateCommits(m)
        \/ TimerFires(m)
        \/ \E defer \in DeferDelays : RunMonitor(m, defer)
        \/ \E jitter \in Jitter : PluginExits(m, STATUS_OK, jitter)
        \/ TransactionCommits(m)

SpecSched == Init /\ [][NextSched]_vars

\* Two monitors that are created, checked by plugins that report UP, and
\* deleted, with runs that may raise at any awaited call.
NextSlots ==
    \E m \in TwoMonitors :
        \/ CreateActiveMonitor(m, 1, DefaultArgs)
        \/ CreateCommits(m)
        \/ TimerFires(m)
        \/ \E defer \in DeferDelays : RunMonitor(m, defer)
        \/ \E jitter \in Jitter : PluginExits(m, STATUS_OK, jitter)
        \/ TransactionCommits(m)
        \/ RunRaises(m, FALSE)
        \/ Delete(m)
        \/ Purge(m)

SpecSlots == Init /\ [][NextSlots]_vars

\* Shortest delay of a deferred dispatch and largest jitter: which delay is
\* drawn makes no difference to the order of the steps explored here.
ShortestDefer == {10}
LargestJitter == {5}

\* A _run_monitor task of monitor m starts and is admitted: the run begins.
Admit(m) == \E defer \in ShortestDefer : RunMonitor(m, defer) /\ pc'[m] = "plugin"

\* A tick of monitor m fires while the manager is below its limit.
FiresIntoFreeSlot(m) == TimerFires(m) /\ num_running_jobs <= max_concurrent_jobs

\* The monitors of SpecSched with the failsafe scan.
NextLive ==
    \/ \E m \in MonitorIds :
           \/ CreateActiveMonitor(m, 1, DefaultArgs)
           \/ CreateCommits(m)
           \/ TimerFires(m)
           \/ \E defer \in ShortestDefer : RunMonitor(m, defer)
           \/ \E jitter \in LargestJitter : PluginExits(m, STATUS_OK, jitter)
           \/ TransactionCommits(m)
    \/ check_missing_schedules

\* What the event loop guarantees: an armed timer fires, a created task
\* starts, a plugin that terminates is collected, a transaction commits and
\* the failsafe scan runs (weak fairness).  The delay of a deferred dispatch
\* is drawn at random on every attempt, so a monitor whose attempts can meet a
\* free slot again and again does meet one (strong fairness).
LiveFairness ==
    /\ \A m \in MonitorIds :
          /\ WF_vars(TimerFires(m))
          /\ WF_vars(\E defer \in ShortestDefer : RunMonitor(m, defer))
          /\ WF_vars(\E jitter \in LargestJitter : PluginExits(m, STATUS_OK, jitter))
          /\ WF_vars(TransactionCommits(m))
          /\ SF_vars(FiresIntoFreeSlot(m))
          /\ SF_vars(Admit(m))
    /\ WF_vars(check_missing_schedules)

SpecLive == Init /\ [][NextLive]_vars /\ LiveFairness

\* ActiveMonitor.update_args: the arguments are validated against the
\* definition of the monitor, then replaced in memory and in the database.
UpdateArgs(m, monitor_args) ==
    /\ UNCHANGED auxvars
    /\ UNCHANGED def_fields
    /\ m \in monitors
    /\ IF validate_monitor_args(arg_spec[monitor_def[m]], monitor_args, FALSE)
       THEN /\ args' = [args EXCEPT ![m] = monitor_args]
            /\ expanded_args' = [expanded_args EXCEPT ![m] =
                                     expand_monitor_args(def_fields[monitor_def[m]].cmdline_args_tmpl,
                                                         arg_spec[monitor_def[m]], monitor_args)]
            /\ db_args' = [db_args EXCEPT ![m] = monitor_args]
            /\ result' = "ok"
       ELSE /\ result' = "InvalidArguments"
            /\ UNCHANGED <<args, expanded_args, db_args>>
    /\ UNCHANGED <<monitors, num_running_jobs, created, monvars, loopvars, runvars,
                   dbvars, notifications, streak, now, monitor_defs, arg_spec,
                   monitor_def, creating, rows>>

\* A variant of update_monitor_expanded_args that recomputes nothing.
update_monitor_expanded_args_stale(d, tmpl, spec) == expanded_args

\* ActiveMonitorDef.update_monitor_expanded_args for definition d whose
\* template is tmpl and whose parameters are spec.
update_monitor_expanded_args(d, tmpl, spec) ==
    [m \in MonitorIds |-> IF m \in monitors /\ monitor_def[m] = d
                          THEN expand_monitor_args(tmpl, spec, args[m])
                          ELSE expanded_args[m]]

\* ActiveMonitorDef.set_arg with its database write: the parameter is changed
\* or appended, and the expanded arguments of the monitors are recomputed.
SetArg(d, name, required) ==
    /\ UNCHANGED auxvars
    /\ UNCHANGED def_fields
    /\ d \in monitor_defs
    /\ arg_spec' = [arg_spec EXCEPT ![d][name] = IF required THEN "required" ELSE "optional"]
    /\ expanded_args' = update_monitor_expanded_args(d, def_fields[d].cmdline_args_tmpl, arg_spec'[d])
    /\ result' = "ok"
    /\ UNCHANGED <<monitors, num_running_jobs, created, monvars, loopvars, runvars,
                   dbvars, notifications, streak, now, monitor_defs, monitor_def,
                   args, creating, tblvars>>

\* ActiveMonitorDef.delete_arg with its database write.
DeleteArg(d, name) ==
    /\ UNCHANGED auxvars
    /\ UNCHANGED def_fields
    /\ d \in monitor_defs
    /\ IF arg_spec[d][name] # "absent"
       THEN /\ arg_spec' = [arg_spec EXCEPT ![d][name] = "absent"]
            /\ expanded_args' = update_monitor_expanded_args(d, def_fields[d].cmdline_args_tmpl, arg_spec'[d])
       ELSE UNCHANGED <<arg_spec, expanded_args>>
    /\ result' = "ok"
    /\ UNCHANGED <<monitors, num_running_jobs, created, monvars, loopvars, runvars,
                   dbvars, notifications, streak, now, monitor_defs, monitor_def,
                   args, creating, tblvars>>

\* ActiveMonitorDef.delete: raises IrisettError if a monitor of the registry
\* uses the definition, else removes it from the registry and the database.
\* The object stays referenced by whoever holds it.
DefDelete(d) ==
    /\ UNCHANGED auxvars
    /\ UNCHANGED def_fields
    /\ d \in monitor_defs
    /\ IF \E m \in monitors : monitor_def[m] = d
       THEN /\ result' = "IrisettError"
            /\ UNCHANGED monitor_defs
       ELSE /\ monitor_defs' = monitor_defs \ {d}
            /\ result' = "ok"
    /\ UNCHANGED <<monitors, num_running_jobs, created, monvars, loopvars, runvars,
                   dbvars, notifications, streak, now, arg_spec, monitor_def,
                   args, expanded_args, creating, tblvars>>

\* The attributes ActiveMonitorDef.update assigns from update_params; it
\* looks for the keys it knows and at no other key.
updated_fields(fields, update_params) ==
    [f \in DOMAIN fields |-> IF f \in DOMAIN update_params THEN update_params[f]
                             ELSE fields[f]]

\* ActiveMonitorDef.update with its transaction: the attributes named in
\* update_params are assigned, and a new command line template is expanded
\* for the monitors of the definition.
DefUpdate(d, update_params) ==
    /\ UNCHANGED auxvars
    /\ d \in monitor_defs
    /\ def_fields' = [def_fields EXCEPT ![d] = updated_fields(@, update_params)]
    /\ expanded_args' = IF "cmdline_args_tmpl" \in DOMAIN update_params
                        THEN update_monitor_expanded_args(d, def_fields'[d].cmdline_args_tmpl,
                                                          arg_spec[d])
                        ELSE expanded_args
    /\ result' = "ok"
    /\ UNCHANGED <<monitors, num_running_jobs, created, monvars, loopvars, runvars,
                   dbvars, notifications, streak, now, monitor_defs, arg_spec,
                   monitor_def, args, creating, tblvars>>

\* Monitors that are created with any arguments and updated, while the
\* parameters of the definition are changed and the definition is deleted.
NextDefs ==
    \/ \E m \in TwoMonitors :
           \/ \E d \in DefIds, monitor_args \in SUBSET ArgNames :
                  CreateActiveMonitor(m, d, monitor_args)
           \/ CreateCommits(m)
           \/ \E monitor_args \in SUBSET ArgNames : UpdateArgs(m, monitor_args)
           \/ Delete(m)
    \/ \E d \in DefIds, name \in ArgNames :
           \/ \E required \in BOOLEAN : SetArg(d, name, required)
           \/ DeleteArg(d, name)
    \/ \E d \in DefIds : DefDelete(d)
    \/ \E d \in DefIds, keys \in SUBSET UpdateFields :
           \E update_params \in [keys -> FieldValues] : DefUpdate(d, update_params)

SpecDefs == Init /\ [][NextDefs]_vars

\* A row of monitor m is written to a dependent table.
InsertRow(m, table) ==
    /\ UNCHANGED auxvars
    /\ rows' = [rows EXCEPT ![m] = @ \cup {table}]
    /\ UNCHANGED <<monitors, num_running_jobs, created, monvars, loopvars, runvars,
                   dbvars, notifications, streak, now, defvars, db_args>>

\* contact.add_contact_to_active_monitor, for a contact that exists.
add_contact_to_active_monitor(m) ==
    /\ "active_monitors" \in rows[m]
    /\ InsertRow(m, "active_monitor_contacts")

\* contact.add_contact_group_to_active_monitor, for a group that exists.
add_contact_group_to_active_monitor(m) ==
    /\ "active_monitors" \in rows[m]
    /\ InsertRow(m, "active_monitor_contact_groups")

\* monitor_group.add_active_monitor_to_monitor_group, for a group that exists.
add_active_monitor_to_monitor_group(m) ==
    /\ "active_monitors" \in rows[m]
    /\ InsertRow(m, "monitor_group_active_monitors")

\* metadata.add_metadata with object_type "active_monitor" and the id of a
\* monitor the API has handed out.
add_metadata(m) ==
    /\ m \in created
    /\ InsertRow(m, "object_metadata")

\* bindata.set_bindata with object_type "active_monitor" and the id of a
\* monitor the API has handed out.
set_bindata(m) ==
    /\ m \in created
    /\ InsertRow(m, "object_bindata")

\* One monitor that is created, given rows in the dependent tables, checked
\* and deleted.
NextTables ==
    \E m \in OneMonitor :
        \/ CreateActiveMonitor(m, 1, DefaultArgs)
        \/ CreateCommits(m)
        \/ add_contact_to_active_monitor(m)
        \/ add_contact_group_to_active_monitor(m)
        \/ add_active_monitor_to_monitor_group(m)
        \/ add_metadata(m)
        \/ set_bindata(m)
        \/ TimerFires(m)
        \/ \E defer \in DeferDelays : RunMonitor(m, defer)
        \/ \E returncode \in ExitCodes, jitter \in Jitter : PluginExits(m, returncode, jitter)
        \/ TransactionCommits(m)
        \/ NotifyStateChange(m)
        \/ send_notification(m)
        \/ Delete(m)
        \/ Purge(m)

SpecTables == Init /\ [][NextTables]_vars

\* The position in Backends of the next backend send_notification will call.
next_backend(s) ==
    CHOOSE i \in 1..Len(Backends) :
        /\ Backends[i] \in s.due /\ s.status[Backends[i]] = "no"
        /\ \A j \in 1..(i - 1) : ~(Backends[j] \in s.due /\ s.status[Backends[j]] = "no")

\* Whether a backend of s.due has not been called yet.
backends_left(s) == \E b \in s.due : s.status[b] = "no"

\* NotificationManager.send_notification is started for a notification; due
\* are the backends that have settings and, for email and sms, recipients.
SendStarts(due) ==
    /\ send.pc # "running"
    /\ send' = [pc |-> IF due = {} THEN "done" ELSE "running", due |-> due,
                status |-> [b \in BackendNames |-> "no"]]
    /\ UNCHANGED <<monitors, num_running_jobs, created, monvars, loopvars, runvars,
                   dbvars, notifications, streak, now, defvars, tblvars,
                   contact_db, contacts_found, listener, delivered>>

\* The awaited send_alert_notification of the next backend ends.  An
\* exception leaves send_notification, which has no try block; otherwise the
\* next test and call follow.
BackendSends(outcome) ==
    /\ send.pc = "running"
    /\ LET b == Backends[next_backend(send)]
           s == [send EXCEPT !.status[b] = outcome]
       IN send' = [s EXCEPT !.pc = IF outcome = "raised" THEN "failed"
                                   ELSE IF backends_left(s) THEN "running"
                                   ELSE "done"]
    /\ UNCHANGED <<monitors, num_running_jobs, created, monvars, loopvars, runvars,
                   dbvars, notifications, streak, now, defvars, tblvars,
                   contact_db, contacts_found, listener, delivered>>

\* Notifications sent through any set of backends whose sends end in any way.
NextNotify ==
    \/ \E due \in SUBSET BackendNames : SendStarts(due)
    \/ \E outcome \in SendOutcomes : BackendSends(outcome)

SpecNotify == Init /\ [][NextNotify]_vars

\* The row of contact c as the queries select it (the name plays no part).
ContactRow(db, c) ==
    [id |-> c, email |-> db.contacts[c].email, phone |-> db.contacts[c].phone,
     active |-> db.contacts[c].active]

\* The contacts attached to the monitor itself.
_active_monitor_contacts(db, monitor_id) ==
    {ContactRow(db, r.contact_id) : r \in
        {r \in db.active_monitor_contacts :
            /\ r.active_monitor_id = monitor_id
            /\ db.contacts[r.contact_id].active}}

\* A variant of _active_monitor_contact_groups without the test of
\* contact_groups.active.
_active_monitor_contact_groups_any_group(db, monitor_id) ==
    {ContactRow(db, r[2].contact_id) : r \in
        {r \in db.active_monitor_contact_groups \X db.contact_group_contacts :
            /\ r[1].active_monitor_id = monitor_id
            /\ r[1].contact_group_id = r[2].contact_group_id
            /\ db.contacts[r[2].contact_id].active}}

\* The contacts of the contact groups attached to the monitor.
_active_monitor_contact_groups(db, monitor_id) ==
    {ContactRow(db, r[2].contact_id) : r \in
        {r \in db.active_monitor_contact_groups \X db.contact_group_contacts :
            /\ r[1].active_monitor_id = monitor_id
            /\ db.contact_groups[r[1].contact_group_id].active
            /\ r[1].contact_group_id = r[2].contact_group_id
            /\ db.contacts[r[2].contact_id].active}}

\* The contacts attached to the monitor groups of the monitor.  The where
\* clause on contacts.active drops the rows the left joins fill with nulls.
_active_monitor_monitor_group_contacts(db, monitor_id) ==
    {ContactRow(db, r[2].contact_id) : r \in
        {r \in db.monitor_group_active_monitors \X db.monitor_group_contacts :
            /\ r[1].active_monitor_id = monitor_id
            /\ r[1].monitor_group_id = r[2].monitor_group_id
            /\ db.contacts[r[2].contact_id].active}}

\* The contacts of the contact groups attached to the monitor groups of the
\* monitor.
_active_monitor_monitor_group_contact_groups(db, monitor_id) ==
    {ContactRow(db, r[3].contact_id) : r \in
        {r \in db.monitor_group_active_monitors \X db.monitor_group_contact_groups
                   \X db.contact_group_contacts :
            /\ r[1].active_monitor_id = monitor_id
            /\ r[1].monitor_group_id = r[2].monitor_group_id
            /\ r[2].contact_group_id = r[3].contact_group_id
            /\ db.contact_groups[r[2].contact_group_id].active
            /\ db.contacts[r[3].contact_id].active}}

\* list(contacts): the elements of a set in some order, each once.
RECURSIVE list(_)
list(S) ==
    IF S = {} THEN <<>>
    ELSE LET x == CHOOSE x \in S : TRUE IN <<x>> \o list(S \ {x})

\* contact.get_all_contacts_for_active_monitor: the four queries update one
\* set, which is returned as a list.
get_all_contacts_for_active_monitor(db, monitor_id) ==
    list(_active_monitor_contacts(db, monitor_id)
         \cup _active_monitor_contact_groups(db, monitor_id)
         \cup _active_monitor_monitor_group_contacts(db, monitor_id)
         \cup _active_monitor_monitor_group_contact_groups(db, monitor_id))

\* contact.get_contact_dict_for_active_monitor: the emails and the phones of
\* the contacts found, without the empty ones.
get_contact_dict_for_active_monitor(db, monitor_id) ==
    LET contacts == get_all_contacts_for_active_monitor(db, monitor_id)
    IN [email |-> {contacts[i].email : i \in {i \in 1..Len(contacts) : contacts[i].email # ""}},
        phone |-> {contacts[i].phone : i \in {i \in 1..Len(contacts) : contacts[i].phone # ""}}]

\* contact.update_contact: the columns named by the keys of data are written
\* for an existing contact.
update_contact(c, data) ==
    /\ contact_db' = [contact_db EXCEPT !.contacts[c] =
                          [key \in DOMAIN @ |-> IF key \in DOMAIN data THEN data[key] ELSE @[key]]]
    /\ contacts_found' = NoLookup
    /\ UNCHANGED <<monitors, num_running_jobs, created, monvars, loopvars, runvars,
                   dbvars, notifications, streak, now, defvars, tblvars,
                   send, listener, delivered>>

\* contact.update_contact_group with the key active.
update_contact_group(g, active) ==
    /\ contact_db' = [contact_db EXCEPT !.contact_groups[g].active = active]
    /\ contacts_found' = NoLookup
    /\ UNCHANGED <<monitors, num_running_jobs, created, monvars, loopvars, runvars,
                   dbvars, notifications, streak, now, defvars, tblvars,
                   send, listener, delivered>>

\* One of the add_* functions of contact.py and monitor_group.py: a row is
\* written with "replace into"; a monitor must have its row in active_monitors.
ReplaceInto(table, row) ==
    /\ "active_monitor_id" \in DOMAIN row => "active_monitors" \in rows[row.active_monitor_id]
    /\ contact_db' = [contact_db EXCEPT ![table] = @ \cup {row}]
    /\ contacts_found' = NoLookup
    /\ UNCHANGED <<monitors, num_running_jobs, created, monvars, loopvars, runvars,
                   dbvars, notifications, streak, now, defvars, tblvars,
                   send, listener, delivered>>

\* One of the delete_*_from_* functions of contact.py and monitor_group.py.
DeleteFrom(table, row) ==
    /\ contact_db' = [contact_db EXCEPT ![table] = @ \ {row}]
    /\ contacts_found' = NoLookup
    /\ UNCHANGED <<monitors, num_running_jobs, created, monvars, loopvars, runvars,
                   dbvars, notifications, streak, now, defvars, tblvars,
                   send, listener, delivered>>

\* The contacts of a monitor are looked up, as a list and as a dict.
LookupContacts(monitor_id) ==
    /\ contacts_found' =
           [monitor_id |-> monitor_id,
            contacts |-> get_all_contacts_for_active_monitor(contact_db, monitor_id),
            dict |-> get_contact_dict_for_active_monitor(contact_db, monitor_id)]
    /\ UNCHANGED <<monitors, num_running_jobs, created, monvars, loopvars, runvars,
                   dbvars, notifications, streak, now, defvars, tblvars,
                   send, contact_db, listener, delivered>>

\* A database whose contacts, groups and attachments change in any way,
\* with lookups of the contacts of the monitor in between.
NextContacts ==
    \/ \E m \in OneMonitor : CreateActiveMonitor(m, 1, DefaultArgs) \/ CreateCommits(m)
    \/ \E c \in ContactIds, data \in ContactData : update_contact(c, data)
    \/ \E g \in ContactGroupIds, active \in BOOLEAN : update_contact_group(g, active)
    \/ \E table \in DOMAIN RelationRows :
           \E row \in RelationRows[table] : ReplaceInto(table, row) \/ DeleteFrom(table, row)
    \/ \E m \in OneMonitor : LookupContacts(m)

SpecContacts == Init /\ [][NextContacts]_vars

\* EventListener.wants_event.  A filter that _parse_filter_list left as None
\* is the empty set.  The tests are evaluated from left to right: the call of
\* monitor_type() is reached with a monitor filter and a monitor in the
\* payload, and raises AttributeError for an ActiveMonitor.
wants_event(l, event_name, monitor) ==
    IF l.event_filter # {} /\ event_name \notin l.event_filter THEN "no"
    ELSE IF l.active_monitor_filter # {} /\ monitor.kind # "none"
         THEN IF monitor.kind = "ActiveMonitor" THEN "raised"
              ELSE "yes"
         ELSE "yes"

\* EventListener.set_event_filter.
set_event_filter(filter) ==
    /\ listener' = [listener EXCEPT !.event_filter = filter]
    /\ UNCHANGED <<monitors, num_running_jobs, created, monvars, loopvars, runvars,
                   dbvars, notifications, streak, now, defvars, tblvars,
                   send, contact_db, contacts_found, delivered>>

\* EventListener.set_active_monitor_filter.
set_active_monitor_filter(filter) ==
    /\ listener' = [listener EXCEPT !.active_monitor_filter = filter]
    /\ UNCHANGED <<monitors, num_running_jobs, created, monvars, loopvars, runvars,
                   dbvars, notifications, streak, now, defvars, tblvars,
                   send, contact_db, contacts_found, delivered>>

\* EventTracer.running with one listener: the callback is called if
\* wants_event returns true; an exception of wants_event leaves running.
running(event_name, monitor) ==
    /\ delivered' = [event_name |-> event_name, monitor |-> monitor,
                     outcome |-> LET wants == wants_event(listener, event_name, monitor)
                                 IN IF wants = "yes" THEN "called"
                                    ELSE IF wants = "no" THEN "skipped"
                                    ELSE "raised"]
    /\ UNCHANGED <<monitors, num_running_jobs, created, monvars, loopvars, runvars,
                   dbvars, notifications, streak, now, defvars, tblvars,
                   send, contact_db, contacts_found, listener>>

\* One listener whose filters are set in any way, and events of any name
\* and payload.
NextEvents ==
    \/ \E filter \in SUBSET EventNames : set_event_filter(filter)
    \/ \E filter \in SUBSET FilterIds : set_active_monitor_filter(filter)
    \/ \E event_name \in EventNames, monitor \in PayloadMonitors : running(event_name, monitor)

SpecEvents == Init /\ [][NextEvents]_vars

\* One monitor whose plugin exits with any code, is missing, or cannot be
\* spawned or read.
NextPlugin ==
    \E m \in OneMonitor :
        \/ CreateActiveMonitor(m, 1, DefaultArgs)
        \/ CreateCommits(m)
        \/ TimerFires(m)
        \/ \E defer \in DeferDelays : RunMonitor(m, defer)
        \/ \E returncode \in ExitCodes, jitter \in Jitter : PluginExits(m, returncode, jitter)
        \/ \E jitter \in Jitter : PluginNotFound(m, jitter)
        \/ PluginIOError(m)
        \/ TransactionCommits(m)
        \/ NotifyStateChange(m)
        \/ send_notification(m)

SpecPlugin == Init /\ [][NextPlugin]_vars

\* One monitor that is created and checked by a plugin that may exit with any
\* code, may be missing, or may never exit.
NextHang ==
    \E m \in OneMonitor :
        \/ CreateActiveMonitor(m, 1, DefaultArgs)
        \/ CreateCommits(m)
        \/ TimerFires(m)
        \/ \E defer \in DeferDelays : RunMonitor(m, defer)
        \/ \E returncode \in ExitCodes, jitter \in Jitter : PluginExits(m, returncode, jitter)
        \/ \E jitter \in Jitter : PluginNotFound(m, jitter)
        \/ TransactionCommits(m)
        \/ NotifyStateChange(m)
        \/ send_notification(m)

\* The steps of the event loop and of the database happen; nothing makes a
\* plugin process exit.
HangFairness ==
    \A m \in OneMonitor :
        /\ WF_vars(TimerFires(m))
        /\ WF_vars(\E defer \in DeferDelays : RunMonitor(m, defer))
        /\ WF_vars(TransactionCommits(m))
        /\ WF_vars(NotifyStateChange(m))
        /\ WF_vars(send_notification(m))

SpecHang == Init /\ [][NextHang]_vars /\ HangFairness

\* Every monitor, operation, result, failure and the clock.
NextAll ==
    \/ \E m \in MonitorIds : Api(m) \/ Engine(m) \/ Faults(m)
    \/ check_missing_schedules
    \/ Tick

SpecAll == Init /\ [][NextAll]_vars

----------------------------------------------------------------------------
(* Notions the properties are stated in                                    *)

\* The open AlertInterval rows of monitor m.
OpenAlerts(m) == {r \in alerts : r.monitor_id = m /\ r.end_ts = 0}

\* No check run and no API mutation of monitor m is in progress.
Quiescent(m) == pc[m] = "idle" /\ api[m] = "none"

\* The step is the part of a run of monitor m that receives the raw result
\* check_state from the plugin (PluginDone is the only step that leaves
\* "plugin" and records a result).
Observed(m, check_state) ==
    /\ pc[m] = "plugin"
    /\ last_check_state'[m] = check_state
    /\ streak'[m] # streak[m] \/ last_check_state[m] # check_state

----------------------------------------------------------------------------
(* Properties                                                              *)

\* C1: whenever no check run or mutation of a monitor is in progress, a
\* monitor in state DOWN has exactly one AlertInterval row with end_ts = 0.
C1_DownHasExactlyOneOpenAlert ==
    \A m \in monitors :
        (Quiescent(m) /\ state[m] = "DOWN") => Cardinality(OpenAlerts(m)) = 1

\* C2: whenever no check run or mutation is in progress, every AlertInterval
\* with end_ts = 0 belongs to a monitor whose state is DOWN.
C2_OpenAlertImpliesDown ==
    \A r \in alerts :
        (r.end_ts = 0 /\ r.monitor_id \in monitors /\ Quiescent(r.monitor_id))
            => state[r.monitor_id] = "DOWN"

\* C3: in every reachable state each monitor has at most one AlertInterval
\* with end_ts = 0.
C3_AtMostOneOpenAlert ==
    \A m \in MonitorIds : Cardinality(OpenAlerts(m)) <= 1

\* C4: the number of pipeline runs in flight never exceeds max_concurrent_jobs.
C4_InFlightWithinCap == num_running_jobs <= max_concurrent_jobs

\* C5: at every instant each monitor has at most one pending timer tick.
C5_AtMostOnePendingTick == \A m \in MonitorIds : PendingTicks(m) <= 1

\* C6: for each monitor at most one pipeline run is in progress at any time.
C6_AtMostOneRunPerMonitor == \A m \in MonitorIds : runs[m] <= 1

\* A tick of a monitor was dispatched while its run was suspended in the
\* transaction of set_up, and was turned away: the handle armed before
\* state_change is gone from the monitor and one run is in progress.
C6_Witness ==
    \E m \in MonitorIds : pc[m] = "set_up" /\ ~scheduled_job[m].handle /\ runs[m] = 1

\* C7: a monitor in state UP stays UP, re-armed 30 s later, on each DOWN
\* result that is not at least the fourth in a row, and changes to DOWN on
\* the fourth.
C7_DownAfterFourthResult ==
    [][\A m \in MonitorIds :
          (Observed(m, "DOWN") /\ state[m] = "UP") =>
              IF streak'[m] >= 4
              THEN state'[m] = "DOWN"
              ELSE /\ state'[m] = "UP"
                   /\ scheduled_job'[m] = Handle(30)]_vars

\* The fourth DOWN result in a row has moved a monitor from UP to DOWN.
C7_Witness ==
    \E m \in MonitorIds :
        pc[m] = "set_down" /\ prev_state[m] = "UP" /\ state[m] = "DOWN" /\ streak[m] = 4

C9_UnknownToDownAtOnce ==
    [][\A m \in MonitorIds :
          (Observed(m, "DOWN") /\ state[m] = "UNKNOWN") => state'[m] = "DOWN"]_vars

\* A first DOWN result (counter 0) has moved a monitor from UNKNOWN to DOWN.
C9_Witness ==
    \E m \in MonitorIds :
        /\ pc[m] = "set_down" /\ prev_state[m] = "UNKNOWN" /\ state[m] = "DOWN"
        /\ consecutive_checks[m] = 0

\* C10: a monitor in state UP or DOWN that observes UNKNOWN changes to
\* UNKNOWN iff the updated counter is >= UNKNOWN_THRESHOLD; otherwise its
\* state is unchanged and the next tick is armed 120 s later.
C10_UnknownAtThreshold ==
    [][\A m \in MonitorIds :
          (Observed(m, "UNKNOWN") /\ state[m] \in {"UP", "DOWN"}) =>
              IF consecutive_checks'[m] >= UNKNOWN_THRESHOLD
              THEN state'[m] = "UNKNOWN"
              ELSE /\ state'[m] = state[m]
                   /\ scheduled_job'[m] = Handle(120)]_vars

\* The counter has reached the threshold and moved a DOWN monitor to UNKNOWN.
C10_Witness ==
    \E m \in MonitorIds :
        /\ pc[m] = "set_unknown" /\ prev_state[m] = "DOWN" /\ state[m] = "UNKNOWN"
        /\ consecutive_checks[m] = UNKNOWN_THRESHOLD

C12_RunCompletes ==
    \A m \in MonitorIds :
        (monitoring[m] /\ num_running_jobs > 0) ~> (~monitoring[m] /\ num_running_jobs = 0)

\* The raw state the plugin API gives an exit code.
ExpectedRawState(returncode) ==
    IF returncode \in {0, 1} THEN "UP" ELSE IF returncode = 2 THEN "DOWN" ELSE "UNKNOWN"

\* C13: the raw state of a run is UP for exit code 0 or 1, DOWN for exit code
\* 2 and UNKNOWN for every other exit code.
C13_ExitCodeClassification ==
    [][\A m \in MonitorIds, returncode \in ExitCodes :
          (\E jitter \in Jitter : PluginExits(m, returncode, jitter)) =>
              last_check_state'[m] = ExpectedRawState(returncode)]_vars

\* C14: a reset requested while a run was in flight is performed at the
\* start of the next run of the monitor: the flag is cleared, the state is
\* UNKNOWN and the counter 0, and the run reaches its plugin with no open alert.
C14_PendingResetPerformed ==
    [][\A m \in MonitorIds :
          (/\ tasks'[m] < tasks[m] /\ m \in monitors
           /\ ~(num_running_jobs > max_concurrent_jobs)
           /\ ~deleted[m] /\ ~monitoring[m]
           /\ pending_reset[m]) =>
              /\ ~pending_reset'[m]
              /\ state'[m] = "UNKNOWN"
              /\ consecutive_checks'[m] = 0
              /\ pc'[m] = "plugin" => (alert_id'[m] = NoAlert /\ OpenAlerts(m)' = {})]_vars

\* The rows remove_monitor_from_db is about: the row of the monitor, its
\* arguments and its alert intervals are gone.
Purged(m) ==
    /\ "active_monitors" \notin rows[m]
    /\ db_args[m] = {}
    /\ \A r \in alerts : r.monitor_id # m

\* C15: when the run that was in flight at the delete of a monitor completes,
\* on whichever path, the monitor is out of the registry and its rows are
\* purged, and no run of a deleted monitor starts.
C15_DeletedInFlightIsPurged ==
    [][\A m \in MonitorIds :
          /\ (deleted[m] /\ monitoring[m] /\ ~monitoring'[m])
                 => (m \notin monitors' /\ Purged(m)')
          /\ (deleted[m] /\ pc[m] = "idle") => pc'[m] = "idle"]_vars

\* No row that refers to monitor m is left in any table.
NoRowRemains(m) ==
    /\ rows[m] = {}
    /\ db_args[m] = {}
    /\ \A r \in alerts : r.monitor_id # m

\* C16: once the purge of a deleted monitor has run (in delete for an idle
\* monitor, at the end of the run otherwise), no table holds a row that refers
\* to the monitor.
C16_PurgeLeavesNoRow ==
    [][\A m \in MonitorIds :
          ((Delete(m) /\ ~monitoring[m]) \/ Purge(m)) => NoRowRemains(m)']_vars

\* The parameter names of the definition of monitor m.
ParameterNames(m) == {n \in ArgNames : arg_spec[monitor_def[m]][n] # "absent"}

\* C17: the argument keys of every monitor of the registry are parameter
\* names of its definition, whatever operation has completed.
C17_ArgKeysAreParameters ==
    \A m \in monitors : args[m] \subseteq ParameterNames(m)

\* C18: every monitor of the registry has a value for every required
\* parameter of its definition, also after the parameters have been changed.
C18_RequiredArgsPresent ==
    \A m \in monitors :
        \A n \in ArgNames : arg_spec[monitor_def[m]][n] = "required" => n \in args[m]

\* C19: the definition of every monitor of the registry is in the registry of
\* definitions.
C19_DefinitionPresent ==
    \A m \in monitors : monitor_def[m] \in monitor_defs

\* The validation rule as documented: some key is no parameter name, or a
\* required parameter is missing and missing parameters are not permitted.
ShouldRaise(spec, monitor_args, permit_missing) ==
    \/ \E key \in monitor_args : spec[key] = "absent"
    \/ ~permit_missing /\ \E n \in ArgNames : spec[n] = "required" /\ n \notin monitor_args

\* C20: validate_monitor_args raises InvalidArguments exactly when a key is
\* no parameter name or (missing not permitted) a required parameter is
\* missing, and a create_active_monitor or update_args call that fails the
\* validation changes neither the registry, the arguments, the expanded
\* arguments nor a database row.
C20_ValidationRejectsWithoutEffect ==
    /\ [](\A d \in DefIds, monitor_args \in SUBSET ArgNames, permit_missing \in BOOLEAN :
             validate_monitor_args(arg_spec[d], monitor_args, permit_missing)
                 = ~ShouldRaise(arg_spec[d], monitor_args, permit_missing))
    /\ [][\A m \in MonitorIds, monitor_args \in SUBSET ArgNames :
             /\ \A d \in DefIds :
                    CreateActiveMonitor(m, d, monitor_args) =>
                        /\ (result' = "InvalidArguments")
                               = ShouldRaise(arg_spec[d], monitor_args, FALSE)
                        /\ ShouldRaise(arg_spec[d], monitor_args, FALSE) =>
                               UNCHANGED <<monitors, created, creating, args, expanded_args,
                                           rows, db_args, alerts>>
             /\ UpdateArgs(m, monitor_args) =>
                    /\ (result' = "InvalidArguments")
                           = ShouldRaise(arg_spec[monitor_def[m]], monitor_args, FALSE)
                    /\ ShouldRaise(arg_spec[monitor_def[m]], monitor_args, FALSE) =>
                           UNCHANGED <<monitors, created, creating, args, expanded_args,
                                       rows, db_args, alerts>>]_vars

\* A call has failed the validation while a monitor with arguments is
\* registered.
C20_Witness ==
    /\ result = "InvalidArguments"
    /\ \E m \in monitors : args[m] # {}

InStateChange(m) == pc[m] \in {"set_up", "set_down", "set_unknown", "notify"}

\* C22: while a state change is suspended, whoever reads the state of the
\* monitor and the alert rows finds the monitor DOWN exactly when it has a
\* row with end_ts 0.
C22_StateAndAlertVisibleTogether ==
    \A m \in MonitorIds :
        InStateChange(m) =>
            ((state[m] = "DOWN") = (\E r \in alerts : r.monitor_id = m /\ r.end_ts = 0))

C24_PluginFailureIsUnknown ==
    [][\A m \in MonitorIds :
          ((\E jitter \in Jitter : PluginNotFound(m, jitter)) \/ PluginIOError(m)) =>
              /\ last_check_state'[m] = "UNKNOWN"
              /\ consecutive_checks'[m] =
                     update_consecutive_checks(last_check_state[m], consecutive_checks[m],
                                               "UNKNOWN")]_vars

\* The expansion of the current template and parameters of the definition of
\* monitor m with the arguments of m.
CurrentExpansion(m) ==
    expand_monitor_args(def_fields[monitor_def[m]].cmdline_args_tmpl,
                        arg_spec[monitor_def[m]], args[m])

KnownFields == {"name", "description", "active", "cmdline_filename", "cmdline_args_tmpl",
                "description_tmpl"}

\* C26: an update of a definition with a key outside the attributes that may
\* be updated ends with an error and leaves the definition and the expanded
\* arguments of its monitors as they are.
C26_UnknownFieldRejected ==
    [][\A d \in DefIds, keys \in SUBSET UpdateFields :
          \A update_params \in [keys -> FieldValues] :
              (DefUpdate(d, update_params) /\ ~(keys \subseteq KnownFields)) =>
                  /\ result' # "ok"
                  /\ UNCHANGED <<def_fields, expanded_args>>]_vars

\* C27: when send_notification has ended and the send of one backend has
\* raised, every other backend that was due has been called.
C27_OtherBackendsStillInvoked ==
    (send.pc \in {"done", "failed"} /\ \E b \in send.due : send.status[b] = "raised") =>
        \A b \in send.due : send.status[b] # "no"

\* The contacts that reach monitor m by route: 1 attached to the monitor, 2
\* in an active contact group attached to the monitor, 3 attached to a
\* monitor group containing the monitor, 4 in an active contact group
\* attached to such a monitor group.
ContactsByRoute(db, m, route) ==
    {c \in ContactIds :
        /\ db.contacts[c].active
        /\ CASE route = 1 ->
                  [active_monitor_id |-> m, contact_id |-> c] \in db.active_monitor_contacts
             [] route = 2 ->
                  \E g \in ContactGroupIds :
                      /\ [active_monitor_id |-> m, contact_group_id |-> g]
                             \in db.active_monitor_contact_groups
                      /\ db.contact_groups[g].active
                      /\ [contact_group_id |-> g, contact_id |-> c] \in db.contact_group_contacts
             [] route = 3 ->
                  \E mg \in MonitorGroupIds :
                      /\ [monitor_group_id |-> mg, active_monitor_id |-> m]
                             \in db.monitor_group_active_monitors
                      /\ [monitor_group_id |-> mg, contact_id |-> c] \in db.monitor_group_contacts
             [] route = 4 ->
                  \E mg \in MonitorGroupIds, g \in ContactGroupIds :
                      /\ [monitor_group_id |-> mg, active_monitor_id |-> m]
                             \in db.monitor_group_active_monitors
                      /\ [monitor_group_id |-> mg, contact_group_id |-> g]
                             \in db.monitor_group_contact_groups
                      /\ db.contact_groups[g].active
                      /\ [contact_group_id |-> g, contact_id |-> c] \in db.contact_group_contacts}

AttachedContacts(db, m) == UNION {ContactsByRoute(db, m, route) : route \in 1..4}

ShouldReceive(l, event_name, monitor) ==
    /\ l.event_filter = {} \/ event_name \in l.event_filter
    /\ \/ l.active_monitor_filter = {}
       \/ monitor.kind = "none"
       \/ monitor.kind = "ActiveMonitor" /\ monitor.id \in l.active_monitor_filter

\* C29: publishing an event calls the callback of the listener if and only
\* if the event passes the event filter and the monitor filter of the
\* listener.
C29_ListenerReceivesIffMatch ==
    [][\A event_name \in EventNames, monitor \in PayloadMonitors :
          running(event_name, monitor) =>
              (delivered'.outcome = "called" <=> ShouldReceive(listener, event_name, monitor))]_vars

\* The step in which a run of monitor m that was not deleted returns from
\* ActiveMonitor.run without an exception.
RunCompletes(m) == monitoring[m] /\ ~monitoring'[m] /\ pc'[m] = "idle"

\* The delays the next tick may have when a run of monitor m completes: the
\* run ends in handle_check_result when the result changes no state, and
\* after state_change otherwise.
ExpectedDelays(m) ==
    IF pc[m] # "plugin" THEN {180}
    ELSE IF state[m] = "UP" /\ last_check_state'[m] = "UP" THEN {180 + j : j \in -5..5}
    ELSE IF state[m] = "UP" /\ last_check_state'[m] = "DOWN" THEN {30}
    ELSE IF state[m] \in {"UP", "DOWN"} /\ last_check_state'[m] = "UNKNOWN" THEN {120}
    ELSE {180}

\* A run that changes no state leaves the tick it armed, with the delay of
\* its case, as the tick the monitor refers to.
RunWithoutStateChangeArmsDelay ==
    [][\A m \in MonitorIds :
          (RunCompletes(m) /\ ~deleted[m] /\ checks_enabled[m] /\ pc[m] = "plugin") =>
              /\ scheduled_job'[m].pending
              /\ scheduled_job'[m].delay \in ExpectedDelays(m)]_vars

\* C30: when a run of a monitor that is not deleted and has its checks
\* enabled completes, the monitor has exactly one armed tick, and its delay
\* is 180 s with a jitter of at most 5 s for UP in state UP, 30 s for DOWN
\* in state UP without a state change, 120 s for UNKNOWN in state UP or DOWN
\* without a state change, and 180 s otherwise.
C30_OneTickWithDelayOfCase ==
    [][\A m \in MonitorIds :
          (RunCompletes(m) /\ ~deleted[m] /\ checks_enabled[m]) =>
              /\ PendingTicks(m)' = 1
              /\ scheduled_job'[m].pending
              /\ scheduled_job'[m].delay \in ExpectedDelays(m)]_vars

\* C31: the transaction of a state change from UNKNOWN to UP changes no row
\* of active_monitor_alerts, and the state change creates no notification.
C31_UpFromUnknownTouchesNoAlert ==
    [][\A m \in MonitorIds :
          (TransactionCommits(m) /\ pc[m] = "set_up" /\ prev_state[m] = "UNKNOWN") =>
              /\ alerts' = alerts
              /\ pc'[m] # "notify"
              /\ notifications'[m] = notifications[m]]_vars

\* C32: a state change to UNKNOWN, from its start in handle_check_result to
\* the commit of set_unknown, inserts and changes no row of
\* active_monitor_alerts, leaves alert_id as it is and creates no
\* notification.
C32_UnknownTouchesNoAlert ==
    [][\A m \in MonitorIds :
          (\/ TransactionCommits(m) /\ pc[m] = "set_unknown"
           \/ pc[m] = "plugin" /\ pc'[m] = "set_unknown") =>
              /\ alerts' = alerts
              /\ alert_seq' = alert_seq
              /\ alert_id'[m] = alert_id[m]
              /\ pc'[m] # "notify"
              /\ notifications'[m] = notifications[m]]_vars

\* A monitor that has changed from DOWN to UNKNOWN: it still refers to the
\* alert that set_down opened.
C32_Witness ==
    /\ state[1] = "UNKNOWN"
    /\ pc[1] = "idle"
    /\ last_check_state[1] = "UNKNOWN"
    /\ consecutive_checks[1] = UNKNOWN_THRESHOLD
    /\ checks_enabled[1] /\ ~pending_reset[1] /\ api[1] = "none"
    /\ alert_id[1] # NoAlert
    /\ \E r \in alerts : r.id = alert_id[1] /\ r.end_ts = 0

\* C33: a run that receives a raw result adds one to consecutive_checks when
\* the result equals the last one and sets it to 0 otherwise, whether or not
\* the monitor changes state in that run; no other step changes the counter
\* except the reset of a monitor whose checks are switched off, which sets
\* it to 0.
C33_CounterFollowsRawResult ==
    [][\A m \in MonitorIds :
          /\ (pc[m] = "plugin" /\ pc'[m] # "plugin") =>
                 IF last_check_state'[m] = last_check_state[m]
                 THEN \/ consecutive_checks'[m] = consecutive_checks[m] + 1
                      \/ consecutive_checks[m] = MaxStreak /\ consecutive_checks'[m] = MaxStreak
                 ELSE consecutive_checks'[m] = 0
          /\ (pc[m] # "plugin" /\ consecutive_checks'[m] # consecutive_checks[m]) =>
                 /\ consecutive_checks'[m] = 0
                 /\ checks_enabled[m] /\ ~checks_enabled'[m]]_vars

\* A run in which the monitor changes from UP to UNKNOWN while the counter,
\* updated in the same run, keeps the value it has counted up to.
C33_Witness ==
    /\ pc[1] = "set_unknown"
    /\ prev_state[1] = "UP" /\ state[1] = "UNKNOWN"
    /\ last_check_state[1] = "UNKNOWN"
    /\ consecutive_checks[1] > 0

\* The dispatches in flight: the _run_monitor tasks that have passed the test
\* of max_concurrent_jobs and have not returned or raised yet.
InFlight == {m \in MonitorIds : pc[m] # "idle"}

\* C34: num_running_jobs is never negative and is the number of dispatches
\* in flight, whichever way the dispatches before have ended.
C34_CountIsDispatchesInFlight ==
    /\ num_running_jobs >= 0
    /\ num_running_jobs = Cardinality(InFlight)

\* One run is in flight after a run has raised and after a dispatch of the
\* other monitor found its monitor running and returned at once.
C34_Witness ==
    /\ num_running_jobs = 1
    /\ pc[1] = "idle" /\ scheduled_job[1] = Handle(DEFAULT_MONITOR_INTERVAL)
    /\ state[1] = "UNKNOWN" /\ last_check_state[1] = "NONE"
    /\ pc[2] = "set_up" /\ ~scheduled_job[2].handle

----------------------------------------------------------------------------
\* What a dispatch of monitor m must leave alone when the check is skipped:
\* the position of its run, its state, counter, last outcome, alert and
\* flags, and the slots of the manager.
DispatchLeavesMonitorAlone(m) ==
    /\ pc'[m] = pc[m]
    /\ monitoring'[m] = monitoring[m]
    /\ num_running_jobs' = num_running_jobs
    /\ state'[m] = state[m]
    /\ state_ts'[m] = state_ts[m]
    /\ consecutive_checks'[m] = consecutive_checks[m]
    /\ last_check_state'[m] = last_check_state[m]
    /\ alert_id'[m] = alert_id[m]
    /\ alerts_enabled'[m] = alerts_enabled[m]
    /\ checks_enabled'[m] = checks_enabled[m]

\* A _run_monitor task of a registered monitor whose checks are disabled
\* starts.
DisabledDispatch(m) ==
    /\ \E defer \in DeferDelays : RunMonitor(m, defer)
    /\ m \in monitors
    /\ ~checks_enabled[m]

----------------------------------------------------------------------------
\* C37: when create_active_monitor succeeds, the new monitor is in the
\* registry with state UNKNOWN, consecutive counter 0, no last outcome, no
\* open alert, checks and alerts enabled, no run in progress, and exactly
\* one tick armed for it, with delay 0.
C37_CreatedMonitorIsFreshAndArmedOnce ==
    [][\A m \in MonitorIds :
           CreateCommits(m) =>
               /\ result' = "ok"
               /\ m \in monitors'
               /\ state'[m] = "UNKNOWN"
               /\ consecutive_checks'[m] = 0
               /\ last_check_state'[m] = "NONE"
               /\ alert_id'[m] = NoAlert
               /\ checks_enabled'[m] /\ alerts_enabled'[m]
               /\ ~monitoring'[m] /\ ~deleted'[m] /\ ~pending_reset'[m]
               /\ scheduled_job'[m] = Handle(0)
               /\ lost_jobs'[m] = 0 /\ tasks'[m] = 0]_vars

\* The second monitor has just been created while the first one, created
\* before it, is being checked.
C37_Witness ==
    /\ result = "ok"
    /\ monitors = {1, 2}
    /\ pc[1] = "plugin"
    /\ state[2] = "UNKNOWN"
    /\ consecutive_checks[2] = 0
    /\ last_check_state[2] = "NONE"
    /\ scheduled_job[2] = Handle(0)
    /\ PendingTicks(2) = 1

----------------------------------------------------------------------------
\* The monitor created second.
SecondMonitor == TwoMonitors \ OneMonitor

\* One monitor with every check result, a second monitor whose plugin
\* reports UP, and the failsafe scan.
NextFailsafe ==
    \/ NextHang
    \/ \E m \in SecondMonitor :
           \/ CreateActiveMonitor(m, 1, DefaultArgs)
           \/ CreateCommits(m)
           \/ TimerFires(m)
           \/ \E defer \in ShortestDefer : RunMonitor(m, defer)
           \/ \E jitter \in LargestJitter : PluginExits(m, STATUS_OK, jitter)
           \/ TransactionCommits(m)
    \/ check_missing_schedules

\* The event loop runs its timers and tasks, plugin processes exit,
\* transactions commit, and the failsafe, which re-arms itself with
\* call_later(600, ...) before it scans, runs again and again.
FailsafeFairness ==
    /\ HangFairness
    /\ \A m \in OneMonitor :
          WF_vars(\E returncode \in ExitCodes, jitter \in Jitter :
                      PluginExits(m, returncode, jitter))
    /\ \A m \in SecondMonitor :
          /\ WF_vars(TimerFires(m))
          /\ WF_vars(\E defer \in ShortestDefer : RunMonitor(m, defer))
          /\ WF_vars(\E jitter \in LargestJitter : PluginExits(m, STATUS_OK, jitter))
          /\ WF_vars(TransactionCommits(m))
    /\ WF_vars(check_missing_schedules)

SpecFailsafe == Init /\ [][NextFailsafe]_vars /\ FailsafeFairness

\* Monitor m is in the registry, not deleted and not being checked, and
\* nothing will dispatch it: no tick is armed and no dispatch is queued.
WithoutTick(m) ==
    /\ m \in monitors /\ ~deleted[m] /\ ~monitoring[m]
    /\ PendingTicks(m) = 0 /\ tasks[m] = 0

----------------------------------------------------------------------------
\* The run of monitor m is suspended on the transaction of a state change.
InStateChangeTransaction(m) == pc[m] \in {"set_up", "set_down", "set_unknown"}

\* C39: when the transaction of a state change fails and is rolled back, the
\* monitor is left as it was before the change: its state is the one it had
\* when state_change was entered, its alert_id is the one it had then, and no
\* row of active_monitor_alerts has been written.
C39_FailedTransitionLeavesMonitorUnchanged ==
    [][\A m \in MonitorIds : \A partial \in BOOLEAN :
          (RunRaises(m, partial) /\ InStateChangeTransaction(m)) =>
              /\ state'[m] = prev_state[m]
              /\ alert_id'[m] = alert_id[m]
              /\ alerts' = alerts]_vars

----------------------------------------------------------------------------
====
